---------------------------- MODULE Spec2Model ----------------------------
(***************************************************************************)
(* akmanager: the package cache of src/ak.js (manifest ledger, content     *)
(* store, per-package acquisition tasks of installPackages) and the        *)
(* prebuilt-cache programs of src/unnamed/part_000.                        *)
(*                                                                         *)
(* One CLI process runs at a time.  A process runs one command; install    *)
(* starts one asynchronous task per package (Promise.all), and the tasks   *)
(* interleave at every await.  The cache directory and the manifest        *)
(* document persist between processes.                                     *)
(***************************************************************************)
EXTENDS Integers, Sequences, FiniteSets, TLC

(***************************************************************************)
(* Bounds of the model.                                                    *)
(***************************************************************************)
\* the largest number of package arguments of one install command
MaxBatch == 2
\* the largest length of a package name where names are enumerated
MaxNameLen == 3

(***************************************************************************)
(* Values.  Names, versions, paths and keys are sequences of characters.   *)
(***************************************************************************)
\* the content of a path that names no file (the bytes of a file are >= 0)
Absent == <<-1>>
NoVersion == <<>>
NoData == <<>>

PkgA == <<"a">>
PkgB == <<"b">>
PkgEvil == <<".", ".", "/", "e">>
ValidPkgs == {PkgA, PkgB}
AllPkgs == ValidPkgs \cup {PkgEvil}

Letters ==
  {"a","b","c","d","e","f","g","h","i","j","k","l","m","n","o","p","q","r","s",
   "t","u","v","w","x","y","z","A","B","C","D","E","F","G","H","I","J","K","L",
   "M","N","O","P","Q","R","S","T","U","V","W","X","Y","Z"}
Digits == {"0","1","2","3","4","5","6","7","8","9"}
\* the character class of /^[a-zA-Z0-9-_@\/]+$/
AllowedChars == Letters \cup Digits \cup {"-", "_", "@", "/"}

\* a sanitizeInput that lets every non-empty name through
sanitizeInputLax(pkg) == Len(pkg) >= 1

\* sanitizeInput(pkg) returns pkg when this holds and throws otherwise
sanitizeInput(pkg) ==
  Len(pkg) >= 1 /\ \A i \in 1..Len(pkg) : pkg[i] \in AllowedChars

\* the registry: data["dist-tags"].latest of a package
RegistryLatest(pkg) == <<"1">>

\* the bytes of the published tarball of a package, one chunk per element
Tarball(pkg) == IF pkg = PkgA THEN <<1>> ELSE <<2>>
\* bytes a faulty tarball host may serve instead
CorruptBytes == <<9>>

\* `sha512-${hash.digest("base64")}` of a file's bytes (an ideal hash)
Sha512(bytes) == <<"sha512-", bytes>>

\* the registry: data.versions[version].dist.integrity
RegistryIntegrity(pkg, version) == Sha512(Tarball(pkg))

\* the rest of a relative path as path.join leaves it, prev being the
\* character before it: of successive separators one remains
RECURSIVE Normalized(_, _)
Normalized(rel, prev) ==
  IF rel = <<>> THEN <<>>
  ELSE IF Head(rel) = "/" /\ prev = "/" THEN Normalized(Tail(rel), "/")
  ELSE <<Head(rel)>> \o Normalized(Tail(rel), Head(rel))

\* path.join(CACHE_DIR, rel), relative to CACHE_DIR: the two are joined
\* with a separator and the result is normalized (a sanitized name holds
\* no "." and so no "." or ".." segment)
PathJoin(rel) == Normalized(rel, "/")

\* path.join(CACHE_DIR, `${pkg}-${pkgVersion}.tgz`), relative to CACHE_DIR
CachePath(pkg, version) == PathJoin(pkg \o <<"-">> \o version \o <<".tgz">>)

\* `${pkg}@${version}`
ManifestKey(pkg, version) == pkg \o <<"@">> \o version

StorePaths == {CachePath(p, RegistryLatest(p)) : p \in ValidPkgs}

(***************************************************************************)
(* The manifest document as a JavaScript object: a function from keys.     *)
(***************************************************************************)
EmptyManifest == [k \in {} |-> 0]

PutEntry(m, k, e) == [x \in (DOMAIN m) \cup {k} |-> IF x = k THEN e ELSE m[x]]

DeleteEntry(m, k) == [x \in (DOMAIN m) \ {k} |-> m[x]]

VARIABLES
  proc,          \* "none": no process; "install": install is running;
                 \* "ended": the last process has ended and is remembered
  exitCode,      \* exit code of the last process that ended (-1: none yet)
  failure,       \* what made the last process call process.exit(1)
  packages,      \* the package arguments of the current / last command
  tasks,         \* install: the per-package tasks of Promise.all
  versionCache,  \* the process-local Map name -> version
  dirExists,     \* CACHE_DIR exists
  files,         \* CACHE_DIR: store path -> bytes, or Absent
  manifest,      \* the document at MANIFEST_PATH
  didIO,         \* the current / last process did network, file-write or
                 \* subprocess I/O
  shell,         \* uninstall / update: the subprocess the process ran
  locals,        \* uninstall / clean: the local variables of the handler
  command,       \* the command of the current / last process
  acquired,      \* history: the keys whose store path an acquisition returned
  pb,            \* the state of the legacy program (src/unnamed/part_000)
  lastFailed     \* history: the keys whose latest acquisition failed

vars == <<proc, exitCode, failure, packages, tasks, versionCache, dirExists,
          files, manifest, didIO,
          shell, locals, command, acquired, pb, lastFailed>>

\* fsPromises.readFile(MANIFEST_PATH, "utf8").then(JSON.parse).catch(() => ({}))
LoadManifest ==
  IF manifest.state = "ok" THEN manifest.entries ELSE EmptyManifest

\* the first step of fsPromises.writeFile(MANIFEST_PATH, ...): open with
\* O_TRUNC leaves an empty document until the content is written
TruncatedManifest == [state |-> "torn", entries |-> EmptyManifest, len |-> 0]

\* the second step: the serialized object is written from offset 0; it
\* replaces the document unless a longer one was written since the open,
\* whose tail then remains and makes the document unparsable
WrittenManifest(m) ==
  IF manifest.len > Cardinality(DOMAIN m)
  THEN [state |-> "torn", entries |-> EmptyManifest, len |-> manifest.len]
  ELSE [state |-> "ok", entries |-> m, len |-> Cardinality(DOMAIN m)]

NoFailure == [task |-> 0, kind |-> "none"]

NoShell == [cmd |-> "none", args |-> <<>>, attempts |-> 0]

\* a handler that keeps no local variables the model follows
NoLocals == [handler |-> "none"]

NewTask(pkg) ==
  [pc |-> "start", pkg |-> pkg, version |-> NoVersion, snap |-> EmptyManifest,
   data |-> NoData, pos |-> 0, attached |-> FALSE,
   reg |-> 0, tar |-> 0, verified |-> FALSE, evicted |-> FALSE,
   hit |-> FALSE, attempts |-> 0, warm |-> FALSE, dangling |-> FALSE,
   blank |-> FALSE, retry |-> FALSE]

\* the legacy program (src/unnamed/part_000, lines 1-201): the version it
\* gives a package that package-db.json does not list
Latest == <<"latest">>

\* path.join(CACHE_DIR, `${pkg}-${version}`) under ~/.prebuilt-cache
PrebuiltPath(pkg, version) == pkg \o <<"-">> \o version

PrebuiltPaths == {PrebuiltPath(pkg, Latest) : pkg \in ValidPkgs}

\* the module tree `bun add` puts at node_modules/<pkg>
Tree(pkg) == Tarball(pkg)

EmptyDB == [p \in {} |-> NoVersion]

\* the legacy program before its first run: no package-db.json, nothing in
\* ~/.prebuilt-cache, nothing in node_modules; variant: which of the two
\* caching programs of part_000 runs (1: lines 1-201, 2: lines 202-314)
PrebuiltInit ==
  [proc |-> "none", exitCode |-> -1, tasks |-> <<>>,
   variant |-> 1, failed |-> FALSE,
   versionCache |-> EmptyDB,
   dbFile |-> [state |-> "missing", entries |-> EmptyDB, len |-> 0],
   cache |-> [p \in PrebuiltPaths |-> Absent],
   nodeModules |-> [p \in ValidPkgs |-> Absent],
   cacheHits |-> <<>>, toInstall |-> <<>>,
   restored |-> {}, installed |-> FALSE, stored |-> {}]

Init ==
  /\ pb = PrebuiltInit
  /\ proc = "none"
  /\ exitCode = -1
  /\ failure = NoFailure
  /\ packages = <<>>
  /\ tasks = <<>>
  /\ versionCache = [p \in {} |-> NoVersion]
  /\ dirExists = FALSE
  /\ files = [p \in StorePaths |-> Absent]
  /\ manifest = [state |-> "missing", entries |-> EmptyManifest, len |-> 0]
  /\ didIO = FALSE
  /\ shell = NoShell
  /\ locals = NoLocals
  /\ command = "none"
  /\ acquired = {}
  /\ lastFailed = {}

(***************************************************************************)
(* Inputs: the argument lists of a command, up to order and up to the      *)
(* renaming of the two valid packages.                                     *)
(***************************************************************************)
Rank(pkg) == IF pkg = PkgA THEN 1 ELSE IF pkg = PkgB THEN 2 ELSE 3

Batches ==
  {s \in UNION {[1..n -> AllPkgs] : n \in 0..MaxBatch} :
     /\ \A i \in 1..(Len(s) - 1) : Rank(s[i]) <= Rank(s[i + 1])
     /\ (Len(s) >= 1 => s[1] # PkgB)}

(***************************************************************************)
(* Helpers of the task steps.                                              *)
(***************************************************************************)
At(t, pc) == proc = "install" /\ t \in DOMAIN tasks /\ tasks[t].pc = pc

TaskPath(t) == CachePath(tasks[t].pkg, tasks[t].version)

TaskKey(t) == ManifestKey(tasks[t].pkg, tasks[t].version)

\* an error propagates out of the task: Promise.all rejects, the catch block
\* of installPackages logs it and calls process.exit(1); every other task of
\* the process stops where it is
Throw(t, kind, rec) ==
  /\ proc' = "ended"
  /\ exitCode' = 1
  /\ failure' = [task |-> t, kind |-> kind]
  /\ tasks' = [tasks EXCEPT ![t] = [rec EXCEPT !.pc = "failed"]]

\* fsPromises.unlink(path): the name is removed; a write stream that is open
\* on the file keeps writing to the unlinked inode, which no path names
Unlinked(path) ==
  [u \in DOMAIN tasks |->
     IF tasks[u].attached /\ CachePath(tasks[u].pkg, tasks[u].version) = path
     THEN [tasks[u] EXCEPT !.attached = FALSE] ELSE tasks[u]]

\* a write of one byte at offset off (0-based) of a file
WriteAt(content, off, byte) ==
  [i \in 1..(IF Len(content) > off + 1 THEN Len(content) ELSE off + 1) |->
     IF i = off + 1 THEN byte
     ELSE IF i <= Len(content) THEN content[i] ELSE 0]

\* the value of logger.info(...) in `logger.info(...) && resolve()`: pino's
\* log methods return undefined
LoggerInfoTruthy == FALSE

\* retries = 3, the default of execPromise
Retries == 3

(***************************************************************************)
(* installPackages                                                         *)
(***************************************************************************)
\* history: an acquisition of the key the package resolves to has succeeded
\* before and the file at its store path verifies
Warm(pkg) ==
  LET v == RegistryLatest(pkg) IN
  /\ ManifestKey(pkg, v) \in acquired
  /\ Sha512(files[CachePath(pkg, v)]) = RegistryIntegrity(pkg, v)

\* history: the latest acquisition of the key the package resolves to failed
Retry(pkg) == ManifestKey(pkg, RegistryLatest(pkg)) \in lastFailed

\* a getPackageVersion that does not look into versionCache
StartedTaskFetches(pkg, force) ==
  [NewTask(pkg) EXCEPT !.pc = "gpvFetch"]

\* the synchronous prefix of getPackageVersion for one package
StartedTask(pkg, force) ==
  IF ~force /\ pkg \in DOMAIN versionCache
  THEN [NewTask(pkg) EXCEPT !.version = versionCache[pkg],
                            !.pc = "gcManifest", !.warm = Warm(pkg),
                            !.retry = Retry(pkg)]
  ELSE [NewTask(pkg) EXCEPT !.pc = "gpvFetch", !.warm = Warm(pkg),
                            !.retry = Retry(pkg)]

\* a new process runs `install`: sanitizeInput on every argument,
\* ensurePackageJson, then one task per package, each up to its first await
StartInstall(pkgs, force, createsPkgJson) ==
  /\ proc = "none"
  /\ packages' = pkgs
  /\ versionCache' = [p \in {} |-> NoVersion]
  /\ shell' = NoShell
  /\ locals' = NoLocals
  /\ command' = "install"
  /\ UNCHANGED <<acquired, pb, lastFailed>>
  /\ UNCHANGED <<dirExists, files, manifest>>
  /\ IF \E i \in 1..Len(pkgs) : ~sanitizeInput(pkgs[i])
     THEN /\ proc' = "ended"
          /\ exitCode' = 1
          /\ failure' = [task |-> 0, kind |-> "invalid"]
          /\ tasks' = <<>>
          /\ didIO' = FALSE
     ELSE /\ proc' = "install"
          /\ failure' = NoFailure
          /\ tasks' = [i \in 1..Len(pkgs) |-> StartedTask(pkgs[i], force)]
          /\ didIO' = (createsPkgJson \/ Len(pkgs) > 0)
          /\ UNCHANGED exitCode

\* getPackageVersion: the registry answers the request of line 30
GpvAnswer(t, ok, latest) ==
  /\ At(t, "gpvFetch")
  /\ LET rec == [tasks[t] EXCEPT !.reg = @ + 1] IN
     IF ok
     THEN /\ versionCache' =
               [p \in (DOMAIN versionCache) \cup {rec.pkg} |->
                  IF p = rec.pkg THEN latest ELSE versionCache[p]]
          /\ tasks' = [tasks EXCEPT ![t] =
               [rec EXCEPT !.version = latest, !.pc = "gcManifest"]]
          /\ UNCHANGED <<proc, exitCode, failure>>
     ELSE /\ Throw(t, "registry", rec)
          /\ UNCHANGED versionCache
  /\ UNCHANGED <<packages, dirExists, files, manifest, didIO,
                 shell, locals, command,
                 acquired, pb, lastFailed>>

\* the registry answers the fetch of getPackageVersion; during an install
\* its latest tag does not move
GpvResponse(t) ==
  /\ t \in DOMAIN tasks
  /\ \E ok \in BOOLEAN : GpvAnswer(t, ok, RegistryLatest(tasks[t].pkg))

\* a getCachedPackage without the .catch(() => ({})): a missing or
\* unparsable manifest rejects the load
GcManifestStrict(t) ==
  /\ At(t, "gcManifest")
  /\ IF manifest.state # "ok"
     THEN Throw(t, "manifest", tasks[t])
     ELSE /\ tasks' = [tasks EXCEPT ![t] =
               IF TaskKey(t) \in DOMAIN LoadManifest
               THEN [@ EXCEPT !.snap = LoadManifest, !.pc = "gcReadFile"]
               ELSE [@ EXCEPT !.pc = "cpFetch"]]
          /\ UNCHANGED <<proc, exitCode, failure>>
  /\ UNCHANGED <<packages, versionCache, dirExists, files, manifest, didIO,
                 shell, locals, command, acquired, pb, lastFailed>>

\* getCachedPackage: the manifest is loaded and the key looked up
GcManifest(t) ==
  /\ At(t, "gcManifest")
  /\ tasks' = [tasks EXCEPT ![t] =
       IF TaskKey(t) \in DOMAIN LoadManifest
       THEN [@ EXCEPT !.snap = LoadManifest, !.pc = "gcReadFile"]
       ELSE [@ EXCEPT !.blank = (manifest.state # "ok"), !.pc = "cpFetch"]]
  /\ UNCHANGED <<proc, exitCode, failure, packages, versionCache, dirExists,
                 files, manifest, didIO, shell, locals, command, acquired, pb,
                 lastFailed>>

\* a getCachedPackage that never trusts the stored file: it evicts the entry
\* whatever the file hashes to
GcReadFileDistrusts(t) ==
  /\ At(t, "gcReadFile")
  /\ LET e == tasks[t].snap[TaskKey(t)] IN
     IF files[e.path] = Absent
     THEN Throw(t, "enoent", tasks[t])
     ELSE /\ tasks' = [tasks EXCEPT ![t].pc = "gcUnlink"]
          /\ UNCHANGED <<proc, exitCode, failure>>
  /\ UNCHANGED <<packages, versionCache, dirExists, files, manifest, didIO,
                 shell, locals, command, acquired, pb, lastFailed>>

\* getCachedPackage: the file of the entry is read and hashed
GcReadFile(t) ==
  /\ At(t, "gcReadFile")
  /\ LET e == tasks[t].snap[TaskKey(t)] IN
     IF files[e.path] = Absent
     THEN /\ Throw(t, "enoent", [tasks[t] EXCEPT !.dangling = TRUE])
          /\ UNCHANGED acquired
     ELSE /\ acquired' = IF Sha512(files[e.path]) # e.integrity
                         THEN acquired ELSE acquired \cup {TaskKey(t)}
          /\ tasks' = [tasks EXCEPT ![t] =
               IF Sha512(files[e.path]) # e.integrity
               THEN [@ EXCEPT !.pc = "gcUnlink"]
               ELSE [@ EXCEPT !.verified = TRUE, !.hit = TRUE, !.pc = "exec"]]
          /\ UNCHANGED <<proc, exitCode, failure>>
  /\ UNCHANGED <<packages, versionCache, dirExists, files, manifest, didIO,
                 shell, locals, command, pb, lastFailed>>

\* getCachedPackage: the file is unlinked and the key deleted from the
\* loaded object
GcUnlink(t) ==
  /\ At(t, "gcUnlink")
  /\ LET path == tasks[t].snap[TaskKey(t)].path IN
     IF files[path] = Absent
     THEN /\ Throw(t, "enoent", tasks[t])
          /\ UNCHANGED files
     ELSE /\ files' = [files EXCEPT ![path] = Absent]
          /\ tasks' = [Unlinked(path) EXCEPT ![t] =
               [@ EXCEPT !.snap = DeleteEntry(@, TaskKey(t)),
                         !.evicted = TRUE, !.pc = "gcWriteOpen"]]
          /\ UNCHANGED <<proc, exitCode, failure>>
  /\ UNCHANGED <<packages, versionCache, dirExists, manifest, didIO,
                 shell, locals,
                 command, acquired, pb, lastFailed>>

\* getCachedPackage: writeFile of the manifest opens (and truncates) it
GcWriteOpen(t) ==
  /\ At(t, "gcWriteOpen")
  /\ manifest' = TruncatedManifest
  /\ tasks' = [tasks EXCEPT ![t].pc = "gcWriteDone"]
  /\ UNCHANGED <<proc, exitCode, failure, packages, versionCache, dirExists,
                 files, didIO,
                 shell, locals, command, acquired, pb, lastFailed>>

\* getCachedPackage: the manifest is written; null is returned and
\* cachePackage starts with its registry request
GcWriteDone(t) ==
  /\ At(t, "gcWriteDone")
  /\ manifest' = WrittenManifest(tasks[t].snap)
  /\ tasks' = [tasks EXCEPT ![t].pc = "cpFetch"]
  /\ UNCHANGED <<proc, exitCode, failure, packages, versionCache, dirExists,
                 files, didIO,
                 shell, locals, command, acquired, pb, lastFailed>>


(***************************************************************************)
(* cachePackage                                                            *)
(***************************************************************************)
\* the registry answers the request of line 71; the integrity is taken from
\* the answer and CACHE_DIR is created
CpFetch(t) ==
  /\ At(t, "cpFetch")
  /\ LET rec == [tasks[t] EXCEPT !.reg = @ + 1] IN
     \E ok \in BOOLEAN :
       IF ok
       THEN /\ tasks' = [tasks EXCEPT ![t] = [rec EXCEPT !.pc = "cpAccess"]]
            /\ dirExists' = TRUE
            /\ UNCHANGED <<proc, exitCode, failure>>
       ELSE /\ Throw(t, "registry", rec)
            /\ UNCHANGED dirExists
  /\ UNCHANGED <<packages, versionCache, files, manifest, didIO, shell, locals,
                 command, acquired, pb, lastFailed>>

\* a cachePackage that registers an existing store path without hashing it
CpAccessTrusts(t) ==
  /\ At(t, "cpAccess")
  /\ tasks' = [tasks EXCEPT ![t].pc =
       IF files[TaskPath(t)] # Absent THEN "cpManifest" ELSE "cpTarball"]
  /\ UNCHANGED <<proc, exitCode, failure, packages, versionCache, dirExists,
                 files, manifest, didIO, shell, locals, command, acquired, pb,
                 lastFailed>>

\* fsPromises.access(cachePath): the download is skipped when the path exists
CpAccess(t) ==
  /\ At(t, "cpAccess")
  /\ tasks' = [tasks EXCEPT ![t].pc =
       IF files[TaskPath(t)] # Absent THEN "cpReadFile" ELSE "cpTarball"]
  /\ UNCHANGED <<proc, exitCode, failure, packages, versionCache, dirExists,
                 files, manifest, didIO, shell, locals, command, acquired, pb,
                 lastFailed>>

\* the tarball host answers fetch(tarballUrl); createWriteStream is called
CpTarball(t) ==
  /\ At(t, "cpTarball")
  /\ LET rec == [tasks[t] EXCEPT !.tar = @ + 1] IN
     \/ \E bytes \in {Tarball(rec.pkg), CorruptBytes} :
          /\ tasks' = [tasks EXCEPT ![t] =
               [rec EXCEPT !.data = bytes, !.pc = "cpOpen"]]
          /\ UNCHANGED <<proc, exitCode, failure>>
     \/ Throw(t, "network", rec)
  /\ UNCHANGED <<packages, versionCache, dirExists, files, manifest, didIO,
                 shell, locals, command, acquired, pb, lastFailed>>

\* the write stream opens cachePath with flag "w": created, or truncated
CpOpen(t) ==
  /\ At(t, "cpOpen")
  /\ files' = [files EXCEPT ![TaskPath(t)] = <<>>]
  /\ tasks' = [tasks EXCEPT ![t] =
       [@ EXCEPT !.attached = TRUE, !.pos = 0, !.pc = "cpPipe"]]
  /\ UNCHANGED <<proc, exitCode, failure, packages, versionCache, dirExists,
                 manifest, didIO,
                 shell, locals, command, acquired, pb, lastFailed>>

\* where the task goes when the stream has finished: the "finish" handler
\* calls resolve() only if logger.info(...) is truthy
AfterFinish == IF LoggerInfoTruthy THEN "cpReadFile" ELSE "cpHung"

\* tarball.body.pipe(writeStream): the next chunk is written at the stream's
\* position; after the last one the stream ends and emits "finish"
CpPipe(t) ==
  /\ At(t, "cpPipe")
  /\ LET rec == tasks[t]
         last == rec.pos + 1 = Len(rec.data) IN
     /\ files' = IF rec.attached
                 THEN [files EXCEPT ![TaskPath(t)] =
                         WriteAt(@, rec.pos, rec.data[rec.pos + 1])]
                 ELSE files
     /\ tasks' = [tasks EXCEPT ![t] =
          [rec EXCEPT !.pos = @ + 1,
                      !.attached = IF last THEN FALSE ELSE @,
                      !.pc = IF last THEN AfterFinish ELSE "cpPipe"]]
  /\ UNCHANGED <<proc, exitCode, failure, packages, versionCache, dirExists,
                 manifest, didIO,
                 shell, locals, command, acquired, pb, lastFailed>>

\* writeStream.on("error", reject): a failed write rejects the promise; the
\* file stays as the stream left it
CpStreamError(t) ==
  /\ At(t, "cpPipe")
  /\ Throw(t, "write", [tasks[t] EXCEPT !.attached = FALSE])
  /\ UNCHANGED <<packages, versionCache, dirExists, files, manifest, didIO,
                 shell, locals, command, acquired, pb, lastFailed>>

\* the tarball stream breaks: pipe() stops feeding the write stream, which
\* emits neither "finish" nor "error", so the promise never settles
CpBodyError(t) ==
  /\ At(t, "cpPipe")
  /\ tasks' = [tasks EXCEPT ![t] =
       [@ EXCEPT !.attached = FALSE, !.pc = "cpHung"]]
  /\ UNCHANGED <<proc, exitCode, failure, packages, versionCache, dirExists,
                 files, manifest, didIO, shell, locals, command, acquired, pb,
                 lastFailed>>

\* lines 91-93: the file at cachePath is read and its hash compared
CpReadFile(t) ==
  /\ At(t, "cpReadFile")
  /\ IF files[TaskPath(t)] = Absent
     THEN Throw(t, "enoent", tasks[t])
     ELSE /\ tasks' = [tasks EXCEPT ![t] =
               IF Sha512(files[TaskPath(t)])
                    # RegistryIntegrity(@.pkg, @.version)
               THEN [@ EXCEPT !.pc = "cpUnlink"]
               ELSE [@ EXCEPT !.verified = TRUE, !.pc = "cpManifest"]]
          /\ UNCHANGED <<proc, exitCode, failure>>
  /\ UNCHANGED <<packages, versionCache, dirExists, files, manifest, didIO,
                 shell, locals, command, acquired, pb, lastFailed>>

\* lines 94-95: the file is unlinked and the integrity error thrown
CpUnlink(t) ==
  /\ At(t, "cpUnlink")
  /\ IF files[TaskPath(t)] = Absent
     THEN /\ Throw(t, "enoent", tasks[t])
          /\ UNCHANGED files
     ELSE /\ files' = [files EXCEPT ![TaskPath(t)] = Absent]
          /\ proc' = "ended"
          /\ exitCode' = 1
          /\ failure' = [task |-> t, kind |-> "integrity"]
          /\ tasks' = [Unlinked(TaskPath(t)) EXCEPT ![t] =
               [@ EXCEPT !.evicted = TRUE, !.pc = "failed"]]
  /\ UNCHANGED <<packages, versionCache, dirExists, manifest, didIO,
                 shell, locals,
                 command, acquired, pb, lastFailed>>

\* lines 98-99: the manifest is loaded and the entry of the key put
CpManifest(t) ==
  /\ At(t, "cpManifest")
  /\ tasks' = [tasks EXCEPT ![t] =
       [@ EXCEPT !.snap =
           PutEntry(LoadManifest, TaskKey(t),
                    [path |-> TaskPath(t),
                     integrity |->
                       RegistryIntegrity(tasks[t].pkg, tasks[t].version)]),
                 !.blank = (@ \/ manifest.state # "ok"),
                 !.pc = "cpWriteOpen"]]
  /\ UNCHANGED <<proc, exitCode, failure, packages, versionCache, dirExists,
                 files, manifest, didIO, shell, locals, command, acquired, pb,
                 lastFailed>>

\* line 100: writeFile of the manifest opens (and truncates) it
CpWriteOpen(t) ==
  /\ At(t, "cpWriteOpen")
  /\ manifest' = TruncatedManifest
  /\ tasks' = [tasks EXCEPT ![t].pc = "cpWriteDone"]
  /\ UNCHANGED <<proc, exitCode, failure, packages, versionCache, dirExists,
                 files, didIO,
                 shell, locals, command, acquired, pb, lastFailed>>

\* lines 100-101: the manifest is written and cachePath returned
CpWriteDone(t) ==
  /\ At(t, "cpWriteDone")
  /\ manifest' = WrittenManifest(tasks[t].snap)
  /\ tasks' = [tasks EXCEPT ![t].pc = "exec"]
  /\ acquired' = acquired \cup {TaskKey(t)}
  /\ UNCHANGED <<proc, exitCode, failure, packages, versionCache, dirExists,
                 files, didIO, shell, locals, command, pb, lastFailed>>

\* an execPromise that gives up one attempt later
ExecOneMore(t) ==
  /\ At(t, "exec")
  /\ \E ok \in BOOLEAN :
       IF ok
       THEN /\ tasks' = [tasks EXCEPT ![t] =
                 [@ EXCEPT !.attempts = @ + 1, !.pc = "done"]]
            /\ UNCHANGED <<proc, exitCode, failure>>
       ELSE IF tasks[t].attempts = Retries
       THEN Throw(t, "exec", [tasks[t] EXCEPT !.attempts = @ + 1])
       ELSE /\ tasks' = [tasks EXCEPT ![t].attempts = @ + 1]
            /\ UNCHANGED <<proc, exitCode, failure>>
  /\ UNCHANGED <<packages, versionCache, dirExists, files, manifest, didIO,
                 shell, locals, command, acquired, pb, lastFailed>>

(***************************************************************************)
(* execPromise and the end of the process                                  *)
(***************************************************************************)
\* execPromise(`add "${cachePath}" ...`): one attempt of the installer; a
\* failed attempt is retried until the last one, whose error is rethrown
Exec(t) ==
  /\ At(t, "exec")
  /\ \E ok \in BOOLEAN :
       IF ok
       THEN /\ tasks' = [tasks EXCEPT ![t] =
                 [@ EXCEPT !.attempts = @ + 1, !.pc = "done"]]
            /\ UNCHANGED <<proc, exitCode, failure>>
       ELSE IF tasks[t].attempts = Retries - 1
       THEN Throw(t, "exec", [tasks[t] EXCEPT !.attempts = @ + 1])
       ELSE /\ tasks' = [tasks EXCEPT ![t].attempts = @ + 1]
            /\ UNCHANGED <<proc, exitCode, failure>>
  /\ UNCHANGED <<packages, versionCache, dirExists, files, manifest, didIO,
                 shell, locals, command, acquired, pb, lastFailed>>

\* lines 155-163: every task returned its package; nothing is uncached
InstallFinish ==
  /\ proc = "install"
  /\ \A t \in DOMAIN tasks : tasks[t].pc = "done"
  /\ proc' = "ended"
  /\ exitCode' = 0
  /\ UNCHANGED <<failure, packages, tasks, versionCache, dirExists, files,
                 manifest, didIO,
                 shell, locals, command, acquired, pb, lastFailed>>

\* a task waits on a promise nothing will settle; once no other task has
\* work pending the event loop is empty and the process ends with code 0
Drain ==
  /\ proc = "install"
  /\ \A t \in DOMAIN tasks : tasks[t].pc \in {"done", "cpHung"}
  /\ \E t \in DOMAIN tasks : tasks[t].pc = "cpHung"
  /\ proc' = "ended"
  /\ exitCode' = 0
  /\ UNCHANGED <<failure, packages, tasks, versionCache, dirExists, files,
                 manifest, didIO,
                 shell, locals, command, acquired, pb, lastFailed>>

(***************************************************************************)
(* Between processes                                                       *)
(***************************************************************************)
\* something outside the program truncates, corrupts or deletes a stored file
Tamper(path, content) ==
  /\ proc = "none"
  /\ files[path] # Absent
  /\ files[path] # content
  /\ files' = [files EXCEPT ![path] = content]
  /\ UNCHANGED <<proc, exitCode, failure, packages, tasks, versionCache,
                 dirExists, manifest, didIO,
                 shell, locals, command, acquired, pb,
                 lastFailed>>

(***************************************************************************)
(* uninstallPackages, updatePackages, cleanCache: one process each, with   *)
(* nothing running beside it                                               *)
(***************************************************************************)
\* execPromise run to its end: the attempts made and whether the last one
\* succeeded
ExecOutcomes ==
  {[attempts |-> n, ok |-> TRUE] : n \in 1..Retries}
    \cup {[attempts |-> Retries, ok |-> FALSE]}

\* an uninstallPackages that hands every requested package to the remover
ExistingPackagesAll(pkgs, existing) == pkgs

\* lines 177-188: existingPackages, the requested packages, in order, for
\* which fsPromises.access(pkgDir) succeeded
ExistingPackages(pkgs, existing) == SelectSeq(pkgs, LAMBDA x : x \in existing)

\* lines 177-188: missingPackages
MissingPackages(pkgs, existing) ==
  SelectSeq(pkgs, LAMBDA x : x \notin existing)

\* uninstallPackages; existing: the requested packages whose directory is in
\* node_modules, still: those whose directory is there after the remover ran
UninstallPackages(pkgs, existing, out, still) ==
  /\ proc = "none"
  /\ existing \subseteq {pkgs[i] : i \in 1..Len(pkgs)}
  /\ still \subseteq existing
  /\ command' = "uninstall"
  /\ UNCHANGED <<acquired, pb, lastFailed>>
  /\ packages' = pkgs
  /\ tasks' = <<>>
  /\ versionCache' = [p \in {} |-> NoVersion]
  /\ proc' = "ended"
  /\ UNCHANGED <<dirExists, files, manifest>>
  /\ IF \E i \in 1..Len(pkgs) : ~sanitizeInput(pkgs[i])
     THEN /\ exitCode' = 1
          /\ failure' = [task |-> 0, kind |-> "invalid"]
          /\ didIO' = FALSE
          /\ shell' = NoShell
          /\ locals' = NoLocals
     ELSE LET existingPackages == ExistingPackages(pkgs, existing)
              found == [handler |-> "uninstallPackages",
                        accessed |-> existing,
                        existingPackages |-> existingPackages,
                        missingPackages |-> MissingPackages(pkgs, existing),
                        returned |-> FALSE,
                        accessedAfter |-> {},
                        stillExisting |-> <<>>] IN
          IF Len(existingPackages) = 0
          THEN /\ exitCode' = 0
               /\ failure' = NoFailure
               /\ didIO' = FALSE
               /\ shell' = NoShell
               /\ locals' = found
          ELSE /\ didIO' = TRUE
               /\ shell' = [cmd |-> "remove", args |-> existingPackages,
                            attempts |-> out.attempts]
               /\ IF ~out.ok
                  THEN /\ exitCode' = 1
                       /\ failure' = [task |-> 0, kind |-> "exec"]
                       /\ locals' = found
                  ELSE LET stillExisting ==
                             SelectSeq(existingPackages,
                                       LAMBDA x : x \in still) IN
                       /\ locals' = [found EXCEPT
                                       !.returned = TRUE,
                                       !.accessedAfter = still,
                                       !.stillExisting = stillExisting]
                       /\ IF Len(stillExisting) > 0
                          THEN /\ exitCode' = 1
                               /\ failure' = [task |-> 0, kind |-> "still"]
                          ELSE /\ exitCode' = 0
                               /\ failure' = NoFailure

\* updatePackages
UpdatePackages(pkgs, out) ==
  /\ proc = "none"
  /\ command' = "update"
  /\ UNCHANGED <<acquired, pb, lastFailed>>
  /\ packages' = pkgs
  /\ tasks' = <<>>
  /\ versionCache' = [p \in {} |-> NoVersion]
  /\ proc' = "ended"
  /\ UNCHANGED <<dirExists, files, manifest>>
  /\ IF \E i \in 1..Len(pkgs) : ~sanitizeInput(pkgs[i])
     THEN /\ exitCode' = 1
          /\ failure' = [task |-> 0, kind |-> "invalid"]
          /\ didIO' = FALSE
          /\ shell' = NoShell
          /\ locals' = NoLocals
     ELSE /\ didIO' = TRUE
          /\ shell' = [cmd |-> IF Len(pkgs) > 0 THEN "add" ELSE "install",
                       args |-> pkgs, attempts |-> out.attempts]
          /\ locals' = NoLocals
          /\ IF out.ok
             THEN exitCode' = 0 /\ failure' = NoFailure
             ELSE exitCode' = 1 /\ failure' = [task |-> 0, kind |-> "exec"]

\* the name of the manifest document in CACHE_DIR
ManifestFile == <<"cache-manifest.json">>

\* fsPromises.readdir(CACHE_DIR) when the directory holds the artifacts f
\* and the manifest document m
ReadDir(f, m) ==
  {p \in StorePaths : f[p] # Absent}
    \cup (IF m.state = "missing" THEN {} ELSE {ManifestFile})

CacheDirListing == ReadDir(files, manifest)

\* the test of line 312 in a cleanCache that spares the manifest document
UnreferencedArtifact(m, file) ==
  /\ file # ManifestFile
  /\ ~\E k \in DOMAIN m : m[k].path = file

\* !Object.values(manifest).some(entry => entry.path === filePath)
Unreferenced(m, file) == ~\E k \in DOMAIN m : m[k].path = file

\* lines 308-316 on a cache directory holding f and m: the manifest object
\* is loaded, the directory is listed, and every listed file that no entry
\* of the object names is unlinked
Cleaned(f, m) ==
  LET seen    == IF m.state = "ok" THEN m.entries ELSE EmptyManifest
      listing == ReadDir(f, m)
      doomed  == {x \in listing : Unreferenced(seen, x)} IN
  [files    |-> [p \in StorePaths |-> IF p \in doomed THEN Absent ELSE f[p]],
   manifest |-> IF ManifestFile \in doomed
                THEN [state |-> "missing", entries |-> EmptyManifest,
                      len |-> 0]
                ELSE m,
   locals   |-> [handler |-> "cleanCache", manifest |-> seen,
                 files |-> listing, removed |-> doomed]]

\* cleanCache, in a process of its own: started when no process runs, or
\* right after an earlier cleanCache has ended
CleanCache ==
  /\ proc = "none" \/ (proc = "ended" /\ command = "clean")
  /\ command' = "clean"
  /\ UNCHANGED <<acquired, pb, lastFailed>>
  /\ packages' = <<>>
  /\ tasks' = <<>>
  /\ versionCache' = [p \in {} |-> NoVersion]
  /\ shell' = NoShell
  /\ proc' = "ended"
  /\ UNCHANGED dirExists
  /\ IF ~dirExists
     THEN /\ exitCode' = 1
          /\ failure' = [task |-> 0, kind |-> "enoent"]
          /\ didIO' = FALSE
          /\ locals' = [handler |-> "cleanCache", manifest |-> LoadManifest,
                        files |-> {}, removed |-> {}]
          /\ UNCHANGED <<files, manifest>>
     ELSE LET after == Cleaned(files, manifest) IN
          /\ files' = after.files
          /\ manifest' = after.manifest
          /\ locals' = after.locals
          /\ exitCode' = 0
          /\ failure' = NoFailure
          /\ didIO' = (after.locals.removed # {})

\* the ended process is forgotten: only the cache directory remains
\* the keys whose acquisition failed in the process that has ended: the
\* task whose error reached the catch of installPackages, unless the error
\* came from the installer
Failed ==
  {ManifestKey(tasks[t].pkg, RegistryLatest(tasks[t].pkg)) :
     t \in {u \in DOMAIN tasks : /\ tasks[u].pc = "failed"
                                 /\ failure.task = u
                                 /\ failure.kind # "exec"}}

\* the keys whose store path was returned in the process that has ended
Succeeded ==
  {ManifestKey(tasks[t].pkg, RegistryLatest(tasks[t].pkg)) :
     t \in {u \in DOMAIN tasks :
              \/ tasks[u].pc \in {"exec", "done"}
              \/ tasks[u].pc = "failed" /\ failure.kind = "exec"}}

Reap ==
  /\ proc = "ended"
  /\ proc' = "none"
  /\ exitCode' = -1
  /\ failure' = NoFailure
  /\ packages' = <<>>
  /\ tasks' = <<>>
  /\ versionCache' = [p \in {} |-> NoVersion]
  /\ didIO' = FALSE
  /\ shell' = NoShell
  /\ locals' = NoLocals
  /\ command' = "none"
  /\ lastFailed' = (lastFailed \ Succeeded) \cup Failed
  /\ UNCHANGED <<dirExists, files, manifest, acquired, pb>>

TaskStep(t) ==
  \/ GpvResponse(t)
  \/ GcManifest(t)
  \/ GcReadFile(t)
  \/ GcUnlink(t)
  \/ GcWriteOpen(t)
  \/ GcWriteDone(t)
  \/ CpFetch(t)
  \/ CpAccess(t)
  \/ CpTarball(t)
  \/ CpOpen(t)
  \/ CpPipe(t)
  \/ CpStreamError(t)
  \/ CpBodyError(t)
  \/ CpReadFile(t)
  \/ CpUnlink(t)
  \/ CpManifest(t)
  \/ CpWriteOpen(t)
  \/ CpWriteDone(t)
  \/ Exec(t)

NextOwn ==
  \/ \E pkgs \in Batches, force \in BOOLEAN, createsPkgJson \in BOOLEAN :
       StartInstall(pkgs, force, createsPkgJson)
  \/ \E t \in 1..MaxBatch : TaskStep(t)
  \/ InstallFinish
  \/ Drain
  \/ \E pkgs \in Batches, out \in ExecOutcomes :
       \E existing \in SUBSET ValidPkgs : \E still \in SUBSET existing :
         UninstallPackages(pkgs, existing, out, still)
  \/ \E pkgs \in Batches, out \in ExecOutcomes : UpdatePackages(pkgs, out)
  \/ CleanCache
  \/ Reap

Next ==
  \/ NextOwn
  \/ \E path \in StorePaths, content \in {Absent, <<>>, CorruptBytes} :
       Tamper(path, content)

Spec == Init /\ [][Next]_vars

SpecOwn == Init /\ [][NextOwn]_vars

(***************************************************************************)
(* The same program when every install names one package three times and  *)
(* nothing outside the program touches the cache.                          *)
(***************************************************************************)
TripleBatch == <<PkgA, PkgA, PkgA>>

NextTriple ==
  \/ \E force \in BOOLEAN, createsPkgJson \in BOOLEAN :
       StartInstall(TripleBatch, force, createsPkgJson)
  \/ \E t \in 1..Len(TripleBatch) : TaskStep(t)
  \/ InstallFinish
  \/ Drain
  \/ Reap

SpecTriple == Init /\ [][NextTriple]_vars

(***************************************************************************)
(* The legacy program of src/unnamed/part_000 (lines 1-201): a cache of    *)
(* installed module trees under ~/.prebuilt-cache and a version database   *)
(* in package-db.json                                                      *)
(***************************************************************************)
akVars == <<proc, exitCode, failure, packages, tasks, versionCache, dirExists,
            files, manifest, didIO, shell, locals, command, acquired,
            lastFailed>>

PrebuiltAt(t, pc) ==
  /\ pb.proc = "install"
  /\ t \in DOMAIN pb.tasks
  /\ pb.tasks[t].pc = pc

\* installPackages: versionCache is empty when the tasks are created, so
\* every getPackageVersion goes on to loadPackageDB
PrebuiltInstall(pkgs, variant) ==
  /\ pb.proc = "none"
  /\ pb' = IF Len(pkgs) = 0
           THEN [pb EXCEPT !.proc = "ended", !.exitCode = 0,
                           !.variant = variant]
           ELSE [pb EXCEPT !.proc = "install", !.variant = variant,
                   !.tasks = [i \in 1..Len(pkgs) |->
                                [pkg |-> pkgs[i], pc |-> "readDB",
                                 version |-> NoVersion, db |-> EmptyDB]]]
  /\ UNCHANGED akVars

\* fs.readFile(DB_PATH) then JSON.parse, or {} when either fails
LoadedDB == IF pb.dbFile.state = "ok" THEN pb.dbFile.entries ELSE EmptyDB

\* loadPackageDB copies every entry of the file into versionCache
MergedVersions(db) ==
  [p \in DOMAIN db \cup DOMAIN pb.versionCache |->
     IF p \in DOMAIN db THEN db[p] ELSE pb.versionCache[p]]

\* getPackageVersion after loadPackageDB: a listed package takes its
\* version from the file, any other one becomes "latest" and is saved
PrebuiltReadDB(t) ==
  /\ PrebuiltAt(t, "readDB")
  /\ LET db  == LoadedDB
         pkg == pb.tasks[t].pkg
         vc  == MergedVersions(db) IN
     pb' = IF pkg \in DOMAIN db
           THEN [pb EXCEPT !.versionCache = vc,
                           !.tasks[t].version = db[pkg],
                           !.tasks[t].pc = "access"]
           ELSE [pb EXCEPT
                   !.versionCache =
                     [p \in DOMAIN vc \cup {pkg} |->
                        IF p = pkg THEN Latest ELSE vc[p]],
                   !.tasks[t].version = Latest,
                   !.tasks[t].db =
                     [p \in DOMAIN db \cup {pkg} |->
                        IF p = pkg THEN Latest ELSE db[p]],
                   !.tasks[t].pc = "saveOpen"]
  /\ UNCHANGED akVars

\* savePackageDB: fs.writeFile opens package-db.json with O_TRUNC
PrebuiltSaveOpen(t) ==
  /\ PrebuiltAt(t, "saveOpen")
  /\ pb' = [pb EXCEPT !.dbFile = [state |-> "torn", entries |-> EmptyDB,
                                  len |-> 0],
                      !.tasks[t].pc = "saveWrite"]
  /\ UNCHANGED akVars

\* savePackageDB: the serialized database is written from offset 0
PrebuiltSaveWrite(t) ==
  /\ PrebuiltAt(t, "saveWrite")
  /\ LET db == pb.tasks[t].db IN
     pb' = [pb EXCEPT
              !.dbFile =
                IF pb.dbFile.len > Cardinality(DOMAIN db)
                THEN [state |-> "torn", entries |-> EmptyDB,
                      len |-> pb.dbFile.len]
                ELSE [state |-> "ok", entries |-> db,
                      len |-> Cardinality(DOMAIN db)],
              !.tasks[t].pc = "access"]
  /\ UNCHANGED akVars

\* fs.access(cachePath): an existing path is a cache hit, whatever it holds
PrebuiltAccess(t) ==
  /\ PrebuiltAt(t, "access")
  /\ LET pkg       == pb.tasks[t].pkg
         cachePath == PrebuiltPath(pkg, pb.tasks[t].version) IN
     pb' = IF cachePath \in PrebuiltPaths /\ pb.cache[cachePath] # Absent
           THEN [pb EXCEPT !.tasks[t].pc = "joined",
                   !.cacheHits = Append(@, [pkg |-> pkg,
                                            cachePath |-> cachePath])]
           ELSE [pb EXCEPT !.tasks[t].pc = "joined",
                   !.toInstall = Append(@, pkg)]
  /\ UNCHANGED akVars

PrebuiltJoined ==
  /\ pb.proc = "install"
  /\ \A t \in DOMAIN pb.tasks : pb.tasks[t].pc = "joined"

\* "Restore cached packages": the cached path is linked (or copied) to
\* node_modules/<pkg>
PrebuiltRestore(i) ==
  /\ PrebuiltJoined
  /\ i \in DOMAIN pb.cacheHits
  /\ i \notin pb.restored
  /\ LET hit == pb.cacheHits[i] IN
     pb' = [pb EXCEPT !.nodeModules[hit.pkg] = pb.cache[hit.cachePath],
                      !.restored = @ \cup {i}]
  /\ UNCHANGED akVars

PrebuiltRestored ==
  /\ PrebuiltJoined
  /\ pb.restored = DOMAIN pb.cacheHits

\* "Batch install remaining": one `bun add` for all of toInstall; when it
\* fails, the first program rethrows the error and the process dies of the
\* rejection (lines 105-108), the second one logs it and goes on (lines
\* 296-298)
PrebuiltExec(ok) ==
  /\ PrebuiltRestored
  /\ Len(pb.toInstall) > 0
  /\ ~pb.installed
  /\ ~pb.failed
  /\ pb' = IF ok
           THEN [pb EXCEPT !.installed = TRUE,
                   !.nodeModules =
                     [p \in ValidPkgs |->
                        IF \E j \in DOMAIN pb.toInstall : pb.toInstall[j] = p
                        THEN Tree(p) ELSE pb.nodeModules[p]]]
           ELSE IF pb.variant = 1
           THEN [pb EXCEPT !.failed = TRUE, !.proc = "ended", !.exitCode = 1]
           ELSE [pb EXCEPT !.failed = TRUE]
  /\ UNCHANGED akVars

\* node_modules/<pkg> is linked (or copied) to CACHE_DIR/<pkg>-latest
PrebuiltStore(j) ==
  /\ PrebuiltRestored
  /\ pb.variant = 1
  /\ pb.installed
  /\ j \in DOMAIN pb.toInstall
  /\ j \notin pb.stored
  /\ LET pkg == pb.toInstall[j] IN
     pb' = [pb EXCEPT !.stored = @ \cup {j},
              !.cache[PrebuiltPath(pkg, Latest)] =
                IF pb.nodeModules[pkg] # Absent
                THEN pb.nodeModules[pkg] ELSE @]
  /\ UNCHANGED akVars

\* installPackages returns and the process exits
PrebuiltFinish ==
  /\ PrebuiltRestored
  /\ IF pb.variant = 1
     THEN pb.stored = DOMAIN pb.toInstall
     ELSE Len(pb.toInstall) = 0 \/ pb.installed \/ pb.failed
  /\ pb' = [pb EXCEPT !.proc = "ended", !.exitCode = 0]
  /\ UNCHANGED akVars

\* between two runs the content under a cached path is damaged
PrebuiltTamper(path) ==
  /\ pb.proc = "none"
  /\ pb.cache[path] \notin {Absent, CorruptBytes}
  /\ pb' = [pb EXCEPT !.cache[path] = CorruptBytes]
  /\ UNCHANGED akVars

\* the next process starts from the module state; the disk stays
PrebuiltReap ==
  /\ pb.proc = "ended"
  /\ pb' = [pb EXCEPT !.proc = "none", !.exitCode = -1, !.tasks = <<>>,
                      !.versionCache = EmptyDB,
                      !.cacheHits = <<>>, !.toInstall = <<>>,
                      !.restored = {}, !.installed = FALSE, !.stored = {},
                      !.failed = FALSE, !.variant = 1]
  /\ UNCHANGED akVars

PrebuiltBatches ==
  {b \in Batches : \A i \in DOMAIN b : b[i] \in ValidPkgs}

NextPrebuilt ==
  \/ \E pkgs \in PrebuiltBatches, variant \in {1, 2} :
       PrebuiltInstall(pkgs, variant)
  \/ \E t \in 1..MaxBatch :
       \/ PrebuiltReadDB(t)
       \/ PrebuiltSaveOpen(t)
       \/ PrebuiltSaveWrite(t)
       \/ PrebuiltAccess(t)
       \/ PrebuiltRestore(t)
       \/ PrebuiltStore(t)
  \/ \E ok \in BOOLEAN : PrebuiltExec(ok)
  \/ PrebuiltFinish
  \/ PrebuiltReap
  \/ \E path \in PrebuiltPaths : PrebuiltTamper(path)

SpecPrebuilt == Init /\ [][NextPrebuilt]_vars

(***************************************************************************)
(* getPackageVersion on its own: calls in one process, against a registry  *)
(* whose latest tag moves                                                  *)
(***************************************************************************)
Versions == {<<"1">>, <<"2">>, <<"3">>}

\* getPackageVersion(pkg, forceLatest) is called when no call is pending
GetPackageVersion(pkg, forceLatest) ==
  /\ \A t \in DOMAIN tasks : tasks[t].pc \in {"gcManifest", "failed"}
  /\ proc' = "install"
  /\ exitCode' = -1
  /\ failure' = NoFailure
  /\ packages' = <<pkg>>
  /\ tasks' = <<StartedTask(pkg, forceLatest)>>
  /\ command' = IF forceLatest THEN "resolveLatest" ELSE "resolve"
  /\ UNCHANGED <<versionCache, dirExists, files, manifest, didIO, shell, locals,
                 acquired, pb, lastFailed>>

NextResolve ==
  \/ \E pkg \in ValidPkgs, forceLatest \in BOOLEAN :
       GetPackageVersion(pkg, forceLatest)
  \/ \E ok \in BOOLEAN, latest \in Versions : GpvAnswer(1, ok, latest)

SpecResolve == Init /\ [][NextResolve]_vars

(***************************************************************************)
(* The store path on its own: cachePackage up to line 77, for names and    *)
(* versions drawn from small sets                                          *)
(***************************************************************************)
\* the names of at most MaxNameLen characters over a letter, the dash and
\* the separator of scoped names
Names ==
  UNION {[1..n -> {"a", "-", "/"}] : n \in 1..MaxNameLen}

\* concrete semantic versions: a release, one of its pre-releases, and a
\* later release
SemVers ==
  {<<"1", ".", "0", ".", "0">>,
   <<"1", ".", "0", ".", "0", "-", "a">>,
   <<"2", ".", "0", ".", "0">>}

\* lines 70-77 for a sanitized name and the version the registry names:
\* cachePath is computed; the model keeps the last two calls
CachePackagePath(pkg, pkgVersion) ==
  /\ sanitizeInput(pkg)
  /\ locals.handler \in {"none", "cachePackage"}
  /\ LET call == [pkg |-> pkg, pkgVersion |-> pkgVersion,
                  cachePath |-> CachePath(pkg, pkgVersion)]
         calls == IF locals.handler = "none" THEN <<>> ELSE locals.calls IN
     locals' = [handler |-> "cachePackage",
                calls |-> IF Len(calls) < 2 THEN Append(calls, call)
                          ELSE <<calls[2], call>>]
  /\ UNCHANGED <<proc, exitCode, failure, packages, tasks, versionCache,
                 dirExists, files, manifest, didIO, shell, command, acquired,
                 pb, lastFailed>>

NextPath == \E pkg \in Names, pkgVersion \in SemVers :
              CachePackagePath(pkg, pkgVersion)

SpecPath == Init /\ [][NextPath]_vars

(***************************************************************************)
(* Progress: what the scheduling of the program guarantees                 *)
(***************************************************************************)
\* the steps of a task that only wait for the local file system or for the
\* installer subprocess, which the timer of execPromise bounds; the answers
\* of the registry and of the tarball host and the events of the tarball
\* stream are not among them: no timer or abort signal is attached to them
LocalStep(t) ==
  \/ GcManifest(t)
  \/ GcReadFile(t)
  \/ GcUnlink(t)
  \/ GcWriteOpen(t)
  \/ GcWriteDone(t)
  \/ CpAccess(t)
  \/ CpOpen(t)
  \/ CpReadFile(t)
  \/ CpUnlink(t)
  \/ CpManifest(t)
  \/ CpWriteOpen(t)
  \/ CpWriteDone(t)
  \/ Exec(t)

Fairness ==
  /\ \A t \in 1..Len(TripleBatch) : WF_vars(LocalStep(t))
  /\ WF_vars(InstallFinish)
  /\ WF_vars(Drain)

\* installs of one package, alone or three times in one batch, with
\* nothing else touching the disk
NextClosed ==
  \/ \E pkgs \in {<<PkgA>>, TripleBatch} :
       \E force \in BOOLEAN, createsPkgJson \in BOOLEAN :
         StartInstall(pkgs, force, createsPkgJson)
  \/ \E t \in 1..Len(TripleBatch) : TaskStep(t)
  \/ InstallFinish
  \/ Drain
  \/ Reap

SpecClosed == Init /\ [][NextClosed]_vars

SpecLive == Init /\ [][NextClosed]_vars /\ Fairness

(***************************************************************************)
(* Properties                                                              *)
(***************************************************************************)
\* the task holds the store path: getCachedPackage or cachePackage returned it
Acquired(t) ==
  \/ tasks[t].pc \in {"exec", "done"}
  \/ tasks[t].pc = "failed" /\ failure.kind = "exec"

\* the acquisition of the task failed on the state of the store
StoreFailed(t) ==
  /\ tasks[t].pc = "failed"
  /\ failure.task = t
  /\ failure.kind \in {"integrity", "enoent"}

\* tarball downloads performed for a package by the tasks of the process
RECURSIVE Downloads(_, _)
Downloads(pkg, n) ==
  IF n = 0 THEN 0
  ELSE Downloads(pkg, n - 1)
         + (IF n \in DOMAIN tasks /\ tasks[n].pkg = pkg THEN tasks[n].tar ELSE 0)

\* C1 (single-flight): the tasks of one process that acquire the same
\* (name, version) perform at most one tarball download between them.
C1_SingleFlight ==
  \A pkg \in ValidPkgs : Downloads(pkg, Len(tasks)) <= 1

\* C2 (outcome agreement): of the tasks of one process on the same key, it
\* never happens that one obtains the store path while another fails on an
\* integrity or missing-file error.
C2_OutcomeAgreement ==
  \A s \in DOMAIN tasks, t \in DOMAIN tasks :
    (s # t /\ tasks[s].pkg = tasks[t].pkg) => ~(Acquired(s) /\ StoreFailed(t))

\* every entry of the manifest names an existing file whose content hashes
\* to the entry's integrity
LedgerConsistent ==
  \A k \in DOMAIN manifest.entries :
    LET e == manifest.entries[k] IN
    /\ e.path \in StorePaths
    /\ files[e.path] # Absent
    /\ Sha512(files[e.path]) = e.integrity

\* C3 (ledger/store consistency): in every state the program's own
\* operations reach, without tampering, every manifest entry names an
\* existing file that hashes to the entry's integrity.
C3_LedgerConsistent == LedgerConsistent

\* the acquisition of the task is over without the store path
AcquisitionFailed(t) ==
  /\ tasks[t].pc = "failed"
  /\ failure.task = t
  /\ failure.kind # "exec"

C5_ReverifyOnHit ==
  /\ \A t \in DOMAIN tasks : Acquired(t) => tasks[t].verified
  /\ \A i \in pb.restored :
       LET hit == pb.cacheHits[i] IN
       Sha512(pb.nodeModules[hit.pkg])
         = RegistryIntegrity(hit.pkg, RegistryLatest(hit.pkg))

\* an `ak install` of one package has ended
SingleEnded ==
  /\ proc = "ended"
  /\ command = "install"
  /\ Len(tasks) = 1

\* the task downloaded these bytes completely into its store path
Downloaded(t, bytes) ==
  /\ tasks[t].tar = 1
  /\ tasks[t].data = bytes
  /\ tasks[t].pos = Len(bytes)

\* the manifest records the task's key with the integrity of its file
Recorded(t) ==
  /\ manifest.state = "ok"
  /\ TaskKey(t) \in DOMAIN manifest.entries
  /\ manifest.entries[TaskKey(t)] =
       [path |-> TaskPath(t), integrity |-> Sha512(files[TaskPath(t)])]

\* C6 (corruption self-heals): a single acquisition that finds the file of
\* an existing manifest entry corrupted, and is served correct data by the
\* registry and the tarball host, evicts, re-fetches and ends with the
\* path returned and a manifest entry matching the file now on disk.
C6_SelfHeals ==
  (SingleEnded /\ tasks[1].evicted /\ Downloaded(1, Tarball(tasks[1].pkg)))
    => (Acquired(1) /\ Recorded(1))

\* C7 (integrity round trip): a miss-path acquisition whose downloaded
\* bytes hash to the registry's integrity, with no other activity on the
\* key, succeeds, leaves exactly those bytes at the store path and records
\* {path, integrity} in the manifest.
C7_RoundTrip ==
  (SingleEnded /\ ~tasks[1].evicted /\ Downloaded(1, Tarball(tasks[1].pkg)))
    => /\ Acquired(1)
       /\ exitCode = 0 \/ failure.kind = "exec"
       /\ files[TaskPath(1)] = Tarball(tasks[1].pkg)
       /\ Recorded(1)

\* C8 (integrity failure on download): when the downloaded bytes at the
\* store path do not hash to the registry's integrity, the file is deleted,
\* the command fails with an integrity error, no manifest entry is written
\* for the key and the installer is not invoked.
C8_IntegrityFailure ==
  (SingleEnded /\ Downloaded(1, CorruptBytes))
    => /\ failure = [task |-> 1, kind |-> "integrity"]
       /\ exitCode = 1
       /\ files[TaskPath(1)] = Absent
       /\ TaskKey(1) \notin DOMAIN manifest.entries
       /\ ~Acquired(1)

\* C9 (invalid name rejected before any I/O): when a name in the argument
\* list of install, uninstall or update contains a character other than
\* alphanumerics, '-', '_', '@' and '/', the command ends with status 1 on
\* the invalid name before any registry request, file creation or write
\* and subprocess, and no package of the batch, valid ones included, is
\* processed.
C9_InvalidNameNoIO ==
  (/\ command \in {"install", "uninstall", "update"}
   /\ \E i \in DOMAIN packages : \E j \in DOMAIN packages[i] :
        packages[i][j] \notin Letters \cup Digits \cup {"-", "_", "@", "/"})
    => /\ proc = "ended"
       /\ exitCode = 1
       /\ failure = [task |-> 0, kind |-> "invalid"]
       /\ ~didIO
       /\ tasks = <<>>
       /\ shell = NoShell

\* an install of a valid and an invalid name was rejected while the cache
\* of an earlier run exists
C9_Witness ==
  /\ command = "install"
  /\ packages = <<PkgA, PkgEvil>>
  /\ proc = "ended"
  /\ failure.kind = "invalid"
  /\ dirExists

C11_MissingFileRefetch ==
  (SingleEnded /\ tasks[1].dangling)
    => /\ failure.kind # "enoent"
       /\ \/ TaskKey(1) \notin DOMAIN manifest.entries
          \/ files[manifest.entries[TaskKey(1)].path] # Absent

\* the download of the task into its store path began and did not complete
Interrupted(t) ==
  /\ tasks[t].data # NoData
  /\ tasks[t].pos < Len(tasks[t].data)
  /\ \/ tasks[t].pc \in {"cpPipe", "cpHung"}
     \/ tasks[t].pc = "failed" /\ failure.kind = "write"

\* C12 (no partial file on failure): when the process has ended and the
\* download of a task failed or was interrupted (write-stream error, broken
\* tarball stream, exit on another task's failure), no partially written
\* file is left at the store path of the task's key.
C12_NoPartialFile ==
  proc = "ended" =>
    \A t \in DOMAIN tasks :
      Interrupted(t) =>
        \/ files[TaskPath(t)] = Absent
        \/ Len(files[TaskPath(t)]) >= Len(tasks[t].data)

\* the task is piping a tarball into the path and has not written all of it
Writing(t, path) ==
  /\ tasks[t].pc = "cpPipe"
  /\ tasks[t].attached
  /\ TaskPath(t) = path
  /\ Len(files[path]) < Len(tasks[t].data)

\* C13 (atomic artifact write): no existence check (cachePackage's access)
\* and no read (cachePackage's or getCachedPackage's readFile) of a store
\* path is performed by a task while another task is in the middle of
\* writing the artifact at that path.
C13_AtomicArtifactWrite ==
  [][\A u \in DOMAIN tasks :
       (/\ proc = "install"
        /\ tasks[u].pc \in {"cpAccess", "cpReadFile", "gcReadFile"}
        /\ tasks'[u].pc # tasks[u].pc)
         => ~\E t \in DOMAIN tasks \ {u} : Writing(t, TaskPath(u))
    ]_vars

\* C14 (atomic manifest save): no load of the manifest (getCachedPackage,
\* cachePackage, cleanCache) ever finds the document half written, that is
\* truncated by a write that has not delivered its content or left
\* unparsable by overlapping writes.
C14_AtomicManifestSave ==
  [][(\/ /\ proc = "install"
         /\ \E u \in DOMAIN tasks :
              /\ tasks[u].pc \in {"gcManifest", "cpManifest"}
              /\ tasks'[u].pc # tasks[u].pc
      \/ /\ proc = "none"
         /\ command' = "clean"
         /\ dirExists)
       => manifest.state # "torn"
    ]_vars

ServedCorrectly(t) ==
  /\ failure.kind \notin {"registry", "network", "write"}
  /\ tasks[t].data \in {NoData, Tarball(tasks[t].pkg)}
  /\ ~Interrupted(t)

\* C16 (failure is not sticky): a single acquisition of a key whose latest
\* acquisition failed, served correct data by the registry and the tarball
\* host, does not fail: what the failed attempt left behind (such as a
\* leftover file at the store path) never makes the next attempt fail.
C16_FailureNotSticky ==
  (SingleEnded /\ tasks[1].retry /\ ServedCorrectly(1))
    => ~AcquisitionFailed(1)

\* C17 (bounded waiting): every install eventually completes, with success
\* or failure, even when the registry or the tarball host never answers:
\* each request is aborted on the configured timeout.
C17_BoundedWaiting == [](proc = "install" => <>(proc = "ended"))

\* C18 (bounded installer retry): execPromise runs the command at most
\* three times; a task that is done made between one and three attempts
\* and makes no further one; the installer error is thrown only after the
\* third failed attempt; an invalid name starts no subprocess at all, and
\* a task failing on a registry answer fails on that one request, with no
\* second request for it and no subprocess.
C18_BoundedRetry ==
  /\ [](/\ shell.attempts <= 3
        /\ failure.kind = "invalid" => tasks = <<>> /\ shell.attempts = 0
        /\ \A t \in DOMAIN tasks :
             /\ tasks[t].attempts <= 3
             /\ tasks[t].pc = "done" => tasks[t].attempts >= 1
             /\ (tasks[t].pc = "failed" /\ failure.task = t) =>
                  /\ failure.kind = "exec" <=> tasks[t].attempts = 3
                  /\ failure.kind # "exec" => tasks[t].attempts = 0
                  /\ failure.kind = "registry" =>
                       /\ tasks[t].tar = 0
                       /\ tasks[t].reg =
                            (IF tasks[t].version = NoVersion THEN 1 ELSE 2))
  /\ [][\A t \in DOMAIN tasks :
          (proc = "install" /\ tasks[t].pc \in {"done", "failed"})
            => (proc' = "none" \/ tasks'[t] = tasks[t])]_vars

\* of two installer runs one succeeded at its second attempt and the other
\* failed three times
C18_Witness ==
  /\ Len(tasks) = 2
  /\ tasks[1].pc = "done" /\ tasks[1].attempts = 2
  /\ tasks[2].pc = "failed" /\ tasks[2].attempts = 3
  /\ failure = [task |-> 2, kind |-> "exec"]

\* C19 (memory-cache resolution): a call of getPackageVersion with
\* forceLatest false for a name held in versionCache returns the held
\* version at once, with no registry request and versionCache unchanged;
\* any other call issues one registry request; a successful answer is
\* returned and stored under the name, a failed one leaves versionCache as
\* it was; no step of a resolution touches the manifest or the store.
C19_MemoryCacheResolution ==
  /\ [](\A t \in DOMAIN tasks : tasks[t].reg <= 1)
  /\ [][LET pkg == packages'[1] IN
        /\ UNCHANGED <<manifest, files, dirExists>>
        /\ (tasks' # tasks /\ tasks'[1].pc # "failed" /\ tasks'[1].reg = 0) =>
             IF command' = "resolve" /\ pkg \in DOMAIN versionCache
             THEN /\ tasks'[1].pc = "gcManifest"
                  /\ tasks'[1].version = versionCache[pkg]
                  /\ versionCache' = versionCache
             ELSE /\ tasks'[1].pc = "gpvFetch"
                  /\ versionCache' = versionCache
        /\ (tasks' # tasks /\ tasks'[1].reg = 1) =>
             /\ tasks[1].pc = "gpvFetch"
             /\ IF tasks'[1].pc = "failed"
                THEN versionCache' = versionCache
                ELSE /\ tasks'[1].pc = "gcManifest"
                     /\ tasks'[1].version \in Versions
                     /\ DOMAIN versionCache' = DOMAIN versionCache \cup {pkg}
                     /\ versionCache'[pkg] = tasks'[1].version
                     /\ \A p \in DOMAIN versionCache \ {pkg} :
                          versionCache'[p] = versionCache[p]
      ]_vars

\* a call without forceLatest returned version 1 from versionCache with no
\* request, after a forced call had stored it
C19_Witness ==
  /\ command = "resolve"
  /\ Len(tasks) = 1
  /\ tasks[1].pc = "gcManifest"
  /\ tasks[1].reg = 0
  /\ tasks[1].pkg = PkgB
  /\ tasks[1].version = <<"1">>
  /\ PkgA \in DOMAIN versionCache /\ versionCache[PkgA] = <<"2">>

\* C20 (latest-tag collapse): the manifest key and the store path of an
\* artifact are derived from the concrete version the registry resolved,
\* never from the literal "latest": no task holds "latest" as its version,
\* no manifest key and no path in a cache directory is built from it.
C20_LatestCollapse ==
  /\ \A t \in DOMAIN tasks : tasks[t].version # Latest
  /\ \A pkg \in ValidPkgs :
       /\ ManifestKey(pkg, Latest) \notin DOMAIN manifest.entries
       /\ pb.cache[PrebuiltPath(pkg, Latest)] = Absent
  /\ \A t \in DOMAIN pb.tasks : pb.tasks[t].version # Latest

\* cleanCache has run to its end without an error
Cleaning == proc = "ended" /\ command = "clean" /\ exitCode = 0

\* C21 (cleanup removes only orphans): when cleanCache has run, the
\* artifacts it unlinked are exactly the listed artifacts that no entry of
\* the manifest names, every listed artifact that an entry names is still
\* in the directory, and a manifest document that was in the directory is
\* still there with the entries it had.
C21_CleanRemovesOnlyOrphans ==
  Cleaning =>
    LET m == locals.manifest IN
    /\ locals.removed \cap StorePaths =
         {p \in locals.files \cap StorePaths : Unreferenced(m, p)}
    /\ \A p \in locals.removed \cap StorePaths : files[p] = Absent
    /\ \A k \in DOMAIN m :
         m[k].path \in locals.files => files[m[k].path] # Absent
    /\ ManifestFile \in locals.files =>
         /\ manifest.state # "missing"
         /\ LoadManifest = m

\* C22 (cleanup drops dead entries): when cleanCache has completed, the
\* manifest holds no entry whose path names a file that is not on disk.
C22_CleanDropsDeadEntries ==
  (proc = "ended" /\ command = "clean") =>
    \A k \in DOMAIN LoadManifest : files[LoadManifest[k].path] # Absent

\* cleanCache has run on a manifest that held an entry whose file was not
\* in the directory
C22_Witness ==
  /\ Cleaning
  /\ \E k \in DOMAIN locals.manifest :
       locals.manifest[k].path \notin locals.files

\* C26 (cleanup is idempotent): a cleanCache that runs right after another
\* cleanCache, with nothing in between, unlinks nothing and leaves the
\* cache directory and the manifest as the first run left them.
C26_CleanIdempotent ==
  [][(/\ proc = "ended" /\ command = "clean"
      /\ proc' = "ended" /\ command' = "clean")
       => /\ locals'.removed = {}
          /\ files' = files
          /\ manifest' = manifest]_vars

\* C28 (uninstall protocol): uninstallPackages hands the remover the
\* requested packages whose directory is in node_modules, in the order of
\* the request, and no others; when no requested directory is there it
\* starts no subprocess and ends with exit code 0; when the remover has
\* returned, the exit code is non-zero exactly if the directory of one of
\* the packages handed to it is still there.
C28_UninstallProtocol ==
  (proc = "ended" /\ command = "uninstall" /\ failure.kind # "invalid") =>
    LET requested == {packages[i] : i \in 1..Len(packages)}
        present   == requested \cap locals.accessed IN
    /\ present = {} => shell = NoShell /\ exitCode = 0 /\ ~didIO
    /\ present # {} =>
         /\ shell.cmd = "remove"
         /\ shell.args = SelectSeq(packages, LAMBDA x : x \in present)
    /\ locals.returned =>
         (exitCode # 0 <=> present \cap locals.accessedAfter # {})
    /\ (shell.cmd = "remove" /\ ~locals.returned) =>
         /\ shell.attempts = Retries
         /\ exitCode = 1

\* of two requested packages one was not in node_modules; the other was
\* handed to the remover, which returned, and its directory was still there
C28_Witness ==
  /\ proc = "ended" /\ command = "uninstall"
  /\ packages = <<PkgA, PkgB>>
  /\ locals.accessed = {PkgA}
  /\ shell.cmd = "remove" /\ shell.args = <<PkgA>>
  /\ locals.returned
  /\ locals.accessedAfter = {PkgA}
  /\ exitCode = 1

\* C27 (version database completeness): when a batch install of the legacy
\* program has ended, package-db.json lists every package of the batch
\* with the version versionCache holds for it.
C27_VersionDBComplete ==
  pb.proc = "ended" =>
    \A t \in DOMAIN pb.tasks :
      LET pkg == pb.tasks[t].pkg IN
      /\ pkg \in DOMAIN pb.versionCache
      /\ pkg \in DOMAIN LoadedDB
      /\ LoadedDB[pkg] = pb.versionCache[pkg]

\* an install of two different packages has ended with every acquisition
\* and every installer run successful
BatchSucceeded ==
  /\ proc = "ended" /\ command = "install" /\ exitCode = 0
  /\ Len(tasks) = 2
  /\ tasks[1].pkg # tasks[2].pkg
  /\ \A t \in DOMAIN tasks : tasks[t].pc = "done"

\* C24 (no lost manifest update): when the acquisitions of two different
\* keys ran in one batch and both succeeded, the manifest holds an entry
\* for each of the two keys, with the path and digest of that key.
C24_NoLostManifestUpdate ==
  BatchSucceeded =>
    \A t \in DOMAIN tasks :
      /\ TaskKey(t) \in DOMAIN LoadManifest
      /\ LoadManifest[TaskKey(t)] =
           [path |-> TaskPath(t),
            integrity |-> RegistryIntegrity(tasks[t].pkg, tasks[t].version)]

\* C23 (exit status): a process that has ended has a non-zero exit code
\* exactly if one of its steps failed and was not recovered: a refused
\* name, a failed registry or tarball request, a failed integrity check, a
\* file system error, an installer or remover that failed on its last
\* attempt, a package left behind by the remover.
C23_ExitStatus ==
  /\ proc = "ended" => (exitCode # 0 <=> failure.kind # "none")
  /\ pb.proc = "ended" => (pb.exitCode # 0 <=> pb.failed)

\* C25 (store path is injective): two calls of cachePackage whose names
\* passed sanitizeInput and that differ in name or in concrete version
\* compute different store paths.
C25_StorePathInjective ==
  locals.handler = "cachePackage" =>
    \A i, j \in DOMAIN locals.calls :
      LET c == locals.calls[i]
          d == locals.calls[j] IN
      (c.pkg # d.pkg \/ c.pkgVersion # d.pkgVersion)
        => c.cachePath # d.cachePath

=============================================================================
